---- MODULE Spec2Model ----
(***************************************************************************)
(* Model of the multipart upload client, src/example/upload.py.            *)
(*                                                                         *)
(* One run of MultipartUploader.upload_file is modelled as a sequential    *)
(* program: pc is its position, the other variables are its locals.  The   *)
(* remote worker, the file system and the clock are the environment: every *)
(* answer of the worker (status, JSON body and the fields the body has),   *)
(* the size of the file, a truncation of the file before it is opened and  *)
(* the ticks of the clock are chosen with \E.                              *)
(* calls and minted are history variables: the remote requests issued and  *)
(* the backend tokens generated so far, in order.  origin is the exception *)
(* as it was first raised.                                                 *)
(*                                                                         *)
(* main is modelled around it: pc is "main" until the uploader is built,   *)
(* and exit_code is set when the process exits; the return or the raise    *)
(* that ends upload_file and the handler of main it reaches are one step.  *)
(*                                                                         *)
(* A KeyboardInterrupt is modelled where the program waits for the answer  *)
(* to a part request; console output is left out.                          *)
(***************************************************************************)
EXTENDS Integers, Sequences, FiniteSets, TLC

\* ------------------------------------------------------------------ bounds
\* A file holds at most MaxChunks full chunks plus a remainder.
MaxChunks == 2
\* The worker answers create with totalParts in 0..MaxParts.
MaxParts == 3
\* The clock stops ticking at MaxClock.
MaxClock == 1

\* --------------------------------------------------------------- constants
CHUNK_SIZE == 5 * 1024 * 1024
TokenLifetime == 3600
jwt_secret == "jwt_secret"
base_url == "worker_url"

ResourceNames == {"r1", "r2"}
Etags == {"e1", "e2"}
FileSizes == {k * CHUNK_SIZE + r : k \in 0..MaxChunks, r \in {0, 1}}

VARIABLES
    pc,             \* position in upload_file
    file_exists,    \* os.path.exists(file_path)
    file_len,       \* number of bytes in the file
    resource_name,  \* argument of upload_file
    file_size,      \* local of upload_file
    start_time,     \* local of upload_file
    upload_info,    \* the JSON body returned by create_upload
    client_token,   \* local of upload_file
    upload_id,      \* local of upload_file
    total_parts,    \* local of upload_file_parts
    part_number,    \* loop variable of upload_file_parts
    f_open,         \* the file object f is open
    f_pos,          \* read position of f
    parts,          \* local of upload_file_parts, then of upload_file;
                    \* <<>> again when upload_file_parts raised
    caught,         \* the exception e bound by the handler at line 227
    exc,            \* the exception that left upload_file
    result,         \* the value upload_file returned
    warnings,       \* the warnings printed by abort_upload
    now,            \* the clock, time.time()
    calls,          \* history: the requests sent, in order
    minted,         \* history: the tokens _generate_backend_jwt returned
    origin,         \* history: the exception as first raised
    argc,           \* len(sys.argv)
    config,         \* state of the configuration file
    exit_code       \* exit status of the process, Running until it exits

vars == <<pc, file_exists, file_len, resource_name, file_size, start_time,
          upload_info, client_token, upload_id, total_parts, part_number,
          f_open, f_pos, parts, caught, exc, result, warnings, now, calls,
          minted, origin, argc, config, exit_code>>

\* ------------------------------------------------------------- exceptions
Exc(cls, phase, why, part) ==
    [cls |-> cls, phase |-> phase, why |-> why, part |-> part, wrapped |-> "none"]

NoExc == Exc("None", "none", "none", 0)

UploadError(phase, why, part) == Exc("UploadError", phase, why, part)

\* KeyboardInterrupt derives from BaseException, not from Exception.
IsException(e) == e.cls # "KeyboardInterrupt"

\* UploadError(f"Unexpected error: {e}")
Wrap(e) == [e EXCEPT !.cls = "UploadError", !.wrapped = e.cls]

\* The outer handlers of upload_file: UploadError is re-raised, any other
\* Exception is wrapped, a BaseException passes through.
OuterExcept(e) ==
    IF e.cls = "UploadError" THEN e
    ELSE IF IsException(e) THEN Wrap(e)
    ELSE e

\* ----------------------------------------------------------------- tokens
Token(type, action, iat, exp, sig) ==
    [type |-> type, action |-> action, iat |-> iat, exp |-> exp, sig |-> sig]

NoToken == Token("none", "none", 0, 0, "none")

\* t1 and t2 are the values of the two calls of time.time().
GenerateBackendJwt(action, t1, t2) ==
    Token("backend", action, t1, t2 + TokenLifetime, jwt_secret)

\* The client tokens are issued by the worker and opaque to the client.
ClientToken(w) == Token("client", "upload", 0, 0, w)
ClientTokens == {ClientToken(w) : w \in {"w1", "w2"}}

\* The sessions the worker opens: an uploadId and the client token for it.
Sessions == {<<"u1", ClientToken("w1")>>, <<"u2", ClientToken("w2")>>}

Ticks == {d \in 0..1 : now + d <= MaxClock}

\* ------------------------------------------------------------ JSON bodies
HasKey(d, k) == k \in DOMAIN d

\* d.get("success"): a missing key gives None, which is false.
GetSuccess(d) == IF HasKey(d, "success") THEN d["success"] ELSE FALSE

Drop(d, k) == [x \in DOMAIN d \ {k} |-> d[x]]

ErrorBody == [success |-> FALSE, error |-> "error"]

\* ---------------------------------------------------------- _make_request
Response(body) == [kind |-> "response", reason |-> "none", body |-> body]
RequestFails(reason) == [kind |-> "error", reason |-> reason, body |-> ErrorBody]
Interrupted == [kind |-> "interrupt", reason |-> "interrupt", body |-> ErrorBody]

\* requests.exceptions.RequestException: a timeout or connection failure of
\* requests.request, a non-2xx status in raise_for_status.
RequestExceptions == {RequestFails(r) : r \in {"timeout", "status"}}

\* The exception _make_request raises for outcome o.
MakeRequestError(o, phase, part) ==
    IF o.kind = "error" THEN UploadError(phase, o.reason, part)
    ELSE Exc("KeyboardInterrupt", phase, "interrupt", part)

Call(op, token) ==
    [op |-> op, token |-> token, uploadId |-> "none", fileId |-> "none",
     fileSize |-> 0, partNumber |-> 0, isLast |-> FALSE, len |-> 0,
     parts |-> <<>>, respPartNumber |-> 0, respEtag |-> "none",
     success |-> FALSE]

\* The answer to a request said success=true.
AnsweredSuccess(o) == o.kind = "response" /\ GetSuccess(o.body)

CallsOf(op) == SelectSeq(calls, LAMBDA c : c.op = op)

\* ------------------------------------------------------------------- Init
\* len(sys.argv): the program name and one, two or three arguments.
ArgCounts == {2, 3, 4}

\* The configuration file: absent, not JSON, JSON without worker_url or
\* jwt_secret, or complete.
ConfigStates == {"missing", "invalid", "incomplete", "ok"}

\* exit_code while the process has not exited.
Running == -1

Init ==
    /\ pc = "main"
    /\ argc \in ArgCounts
    /\ config \in ConfigStates
    /\ exit_code = Running
    /\ file_exists \in BOOLEAN
    /\ file_len \in (IF file_exists THEN FileSizes ELSE {0})
    /\ resource_name \in ResourceNames
    /\ file_size = 0
    /\ start_time = 0
    /\ upload_info = ErrorBody
    /\ client_token = NoToken
    /\ upload_id = "none"
    /\ total_parts = 0
    /\ part_number = 0
    /\ f_open = FALSE
    /\ f_pos = 0
    /\ parts = <<>>
    /\ caught = NoExc
    /\ exc = NoExc
    /\ result = <<>>
    /\ warnings = <<>>
    /\ now = 0
    /\ calls = <<>>
    /\ minted = <<>>
    /\ origin = NoExc

\* ------------------------------------------------------------------- main
\* The exception MultipartUploader() raises for the configuration file;
\* NoExc when the uploader is built.
ConstructorError ==
    CASE config = "invalid" -> UploadError("config", "invalid JSON", 0)
      [] config = "incomplete" -> Exc("KeyError", "config", "worker_url", 0)
      [] OTHER -> NoExc

\* Variant: main without its KeyboardInterrupt handler; the interpreter
\* ends an interrupted process with status 130.
ExitCodeInterruptUnhandled(e) ==
    CASE e.cls = "UploadError" -> 1
      [] e.cls = "KeyboardInterrupt" -> 130
      [] OTHER -> 1

\* The exit status of the process when exception e leaves the try block of
\* main: the two handlers call sys.exit(1), and the interpreter exits with 1
\* for an exception no handler catches.
ExitCodeOfException(e) ==
    CASE e.cls = "UploadError" -> 1
      [] e.cls = "KeyboardInterrupt" -> 1
      [] OTHER -> 1

\* ------------------------------------------------- raising in upload_file
\* An exception raised outside the inner try: only the outer handlers see
\* it, and what they raise reaches the handlers of main (lines 271-276).
RaiseOuter(e) ==
    /\ exc' = OuterExcept(e)
    /\ origin' = e
    /\ pc' = "raised"
    /\ exit_code' = ExitCodeOfException(OuterExcept(e))
    /\ UNCHANGED caught

\* except Exception as e (line 227)
InnerCatches(e) == IsException(e)

\* An exception raised inside the inner try.
RaiseInner(e) ==
    IF InnerCatches(e)
    THEN /\ caught' = e
         /\ origin' = e
         /\ pc' = "abort"
         /\ UNCHANGED <<exc, exit_code>>
    ELSE RaiseOuter(e)

\* Lines 252-267: the argument count, the configuration file, the uploader.
Main ==
    /\ pc = "main"
    /\ IF argc # 3 \/ config = "missing"
       THEN /\ exit_code' = 1
            /\ pc' = "exited"
       ELSE IF ConstructorError # NoExc
       THEN /\ exit_code' = ExitCodeOfException(ConstructorError)
            /\ pc' = "exited"
       ELSE /\ pc' = "start"
            /\ UNCHANGED exit_code
    /\ UNCHANGED <<file_exists, file_len, resource_name, file_size, start_time,
                   upload_info, client_token, upload_id, total_parts,
                   part_number, f_open, f_pos, parts, caught, exc, result,
                   warnings, now, calls, minted, origin, argc, config>>

\* ---------------------------------------------------------- _get_file_info
GetFileInfo ==
    /\ pc = "start"
    /\ start_time' = now
    /\ IF ~file_exists
       THEN /\ RaiseOuter(UploadError("file", "not found", 0))
            /\ UNCHANGED file_size
       ELSE /\ file_size' = file_len
            /\ pc' = "create"
            /\ UNCHANGED <<caught, exc, origin, exit_code>>
    /\ UNCHANGED <<argc, config>>
    /\ UNCHANGED <<file_exists, file_len, resource_name, upload_info,
                   client_token, upload_id, total_parts, part_number, f_open,
                   f_pos, parts, result, warnings, now, calls, minted>>

\* ---------------------------------------------------------- create_upload
CreateBody(u, c, n) ==
    [success |-> TRUE, uploadId |-> u, clientToken |-> c, totalParts |-> n]

CreateBodies ==
    LET full == {CreateBody(s[1], s[2], n) : s \in Sessions, n \in 0..MaxParts}
    IN  {ErrorBody} \cup full
        \cup {Drop(b, k) : b \in full, k \in {"uploadId", "clientToken", "totalParts"}}

CreateOutcomes == RequestExceptions \cup {Response(b) : b \in CreateBodies}

\* The exception that create_upload, or the two lookups that follow it in
\* upload_file (lines 203-204), raise for outcome o; NoExc when there is none.
CreateUploadError(o) ==
    IF o.kind # "response" THEN MakeRequestError(o, "create", 0)
    ELSE IF ~GetSuccess(o.body) THEN UploadError("create", "rejected", 0)
    ELSE IF ~HasKey(o.body, "uploadId") THEN Exc("KeyError", "create", "uploadId", 0)
    ELSE IF ~HasKey(o.body, "totalParts") THEN Exc("KeyError", "create", "totalParts", 0)
    ELSE IF ~HasKey(o.body, "clientToken") THEN Exc("KeyError", "create", "clientToken", 0)
    ELSE NoExc

\* Variant: create_upload called inside the inner try.
CreateRaisesInner(e) == RaiseInner(e)

\* create_upload is called before the inner try is entered.
CreateRaises(e) == RaiseOuter(e)

CreateUpload ==
    /\ pc = "create"
    /\ \E d \in Ticks, o \in CreateOutcomes :
          LET backend_token == GenerateBackendJwt("create", now, now + d)
              payload == [Call("create", backend_token) EXCEPT
                              !.fileId = resource_name, !.fileSize = file_size,
                              !.success = AnsweredSuccess(o)]
              e == CreateUploadError(o)
          IN  /\ now' = now + d
              /\ minted' = Append(minted, backend_token)
              /\ calls' = Append(calls, payload)
              /\ IF e # NoExc
                 THEN /\ CreateRaises(e)
                      /\ UNCHANGED <<upload_info, client_token, upload_id>>
                 ELSE /\ upload_info' = o.body
                      /\ client_token' = o.body["clientToken"]
                      /\ upload_id' = o.body["uploadId"]
                      /\ pc' = "parts"
                      /\ UNCHANGED <<caught, exc, origin, exit_code>>
    /\ UNCHANGED <<argc, config>>
    /\ UNCHANGED <<file_exists, file_len, resource_name, file_size, start_time,
                   total_parts, part_number, f_open, f_pos, parts, result,
                   warnings>>

\* ------------------------------------------------------ upload_file_parts
\* The lengths the file can have when it is opened: the one os.path.getsize
\* reported, or one chunk less when the file was truncated in between.
LengthsAtOpen == {n \in FileSizes : n = file_size \/ n = file_size - CHUNK_SIZE}

\* Lines 106-111: the locals are set and the file is opened.
OpenFile ==
    /\ pc = "parts"
    /\ total_parts' = upload_info["totalParts"]
    /\ parts' = <<>>
    /\ f_open' = TRUE
    /\ f_pos' = 0
    /\ part_number' = 1
    /\ pc' = "loop"
    /\ file_len' \in LengthsAtOpen
    /\ UNCHANGED <<argc, config, exit_code>>
    /\ UNCHANGED <<file_exists, resource_name, file_size, start_time,
                   upload_info, client_token, upload_id, caught, exc, result,
                   warnings, now, calls, minted, origin>>

Min(a, b) == IF a <= b THEN a ELSE b

\* len(f.read(CHUNK_SIZE)) at the current position
ChunkLen == Min(CHUNK_SIZE, file_len - f_pos)

\* range(1, total_parts + 1) is exhausted: the with block is left and parts
\* is returned.
PartsLoopEnd ==
    /\ pc = "loop"
    /\ part_number > total_parts
    /\ f_open' = FALSE
    /\ pc' = "complete"
    /\ UNCHANGED <<argc, config, exit_code>>
    /\ UNCHANGED <<file_exists, file_len, resource_name, file_size, start_time,
                   upload_info, client_token, upload_id, total_parts,
                   part_number, f_pos, parts, caught, exc, result, warnings,
                   now, calls, minted, origin>>

\* Variant: an empty read before totalParts parts were sent is an error.
ReadEmptyRaises ==
    /\ pc = "loop"
    /\ part_number <= total_parts
    /\ ChunkLen = 0
    /\ f_open' = FALSE
    /\ RaiseInner(UploadError("part", "truncated", part_number))
    /\ UNCHANGED <<argc, config>>
    /\ UNCHANGED <<file_exists, file_len, resource_name, file_size, start_time,
                   upload_info, client_token, upload_id, total_parts,
                   part_number, f_pos, parts, result, warnings, now, calls,
                   minted>>

\* Variant: break leaves the loop without closing the file.
ReadEmptyLeavesOpen ==
    /\ pc = "loop"
    /\ part_number <= total_parts
    /\ ChunkLen = 0
    /\ pc' = "complete"
    /\ UNCHANGED <<argc, config, exit_code>>
    /\ UNCHANGED <<file_exists, file_len, resource_name, file_size, start_time,
                   upload_info, client_token, upload_id, total_parts,
                   part_number, f_open, f_pos, parts, caught, exc, result,
                   warnings, now, calls, minted, origin>>

\* if not chunk: break
ReadEmpty ==
    /\ pc = "loop"
    /\ part_number <= total_parts
    /\ ChunkLen = 0
    /\ f_open' = FALSE
    /\ pc' = "complete"
    /\ UNCHANGED <<argc, config, exit_code>>
    /\ UNCHANGED <<file_exists, file_len, resource_name, file_size, start_time,
                   upload_info, client_token, upload_id, total_parts,
                   part_number, f_pos, parts, caught, exc, result, warnings,
                   now, calls, minted, origin>>

PartBody(n, etag, total) ==
    [success |-> TRUE, partNumber |-> n, etag |-> etag, uploadedBytes |-> 1,
     totalBytes |-> total]

\* The worker answers the request for part n with partNumber n or n + 1.
PartBodies(n) ==
    LET full == {PartBody(m, t, b) : m \in {n, n + 1}, t \in Etags, b \in 0..1}
    IN  {ErrorBody} \cup full
        \cup {Drop(b, k) : b \in full,
                k \in {"partNumber", "etag", "uploadedBytes", "totalBytes"}}

PartOutcomes(n) ==
    RequestExceptions \cup {Interrupted} \cup {Response(b) : b \in PartBodies(n)}

\* The part was recorded: the lookups of lines 138-139 succeeded.
PartRecorded(o) ==
    /\ o.kind = "response"
    /\ GetSuccess(o.body)
    /\ HasKey(o.body, "partNumber")
    /\ HasKey(o.body, "etag")

\* The exception one iteration of the loop raises for outcome o of the
\* request for part n; NoExc when there is none.
PartError(o, n) ==
    IF o.kind # "response" THEN MakeRequestError(o, "part", n)
    ELSE IF ~GetSuccess(o.body) THEN UploadError("part", "rejected", n)
    ELSE IF ~HasKey(o.body, "partNumber") THEN Exc("KeyError", "part", "partNumber", n)
    ELSE IF ~HasKey(o.body, "etag") THEN Exc("KeyError", "part", "etag", n)
    ELSE IF ~HasKey(o.body, "uploadedBytes") THEN Exc("KeyError", "part", "uploadedBytes", n)
    ELSE IF ~HasKey(o.body, "totalBytes") THEN Exc("KeyError", "part", "totalBytes", n)
    ELSE IF o.body["totalBytes"] = 0 THEN Exc("ZeroDivisionError", "part", "progress", n)
    ELSE NoExc

\* The entry appended to parts for the answer body.
PartEntry(body) == [partNumber |-> body["partNumber"], etag |-> body["etag"]]

\* Variant: a part request authorised with a backend token.
PartTokenBackend == GenerateBackendJwt("create", now, now)

\* The token sent with a part request.
PartToken == client_token

\* Variant: upload_file_parts called outside the inner try.
PartRaisesOuter(e) == RaiseOuter(e)

\* Variant: the failure of a part request is swallowed and the loop goes on
\* with the same part number.
PartRaisesRetry(e) ==
    /\ origin' = e
    /\ UNCHANGED <<pc, caught, exc, exit_code>>

\* Variant: the failure of a part request is swallowed and upload_file goes
\* on to complete_upload.
PartRaisesToComplete(e) ==
    /\ origin' = e
    /\ pc' = "complete"
    /\ UNCHANGED <<caught, exc, exit_code>>

\* upload_file_parts is called inside the inner try.
PartRaises(e) == RaiseInner(e)

UploadPart ==
    /\ pc = "loop"
    /\ part_number <= total_parts
    /\ ChunkLen > 0
    /\ \E o \in PartOutcomes(part_number) :
          LET is_last_part == part_number = total_parts
              request == [Call("part", PartToken) EXCEPT
                              !.partNumber = part_number,
                              !.isLast = is_last_part,
                              !.len = ChunkLen,
                              !.success = AnsweredSuccess(o)]
              answered == IF PartRecorded(o)
                          THEN [request EXCEPT
                                    !.respPartNumber = o.body["partNumber"],
                                    !.respEtag = o.body["etag"]]
                          ELSE request
              e == PartError(o, part_number)
          IN  /\ f_pos' = f_pos + ChunkLen
              /\ calls' = Append(calls, answered)
              /\ parts' = IF e # NoExc THEN <<>>
                          ELSE Append(parts, PartEntry(o.body))
              /\ IF e # NoExc
                 THEN /\ f_open' = FALSE
                      /\ PartRaises(e)
                      /\ UNCHANGED part_number
                 ELSE /\ part_number' = part_number + 1
                      /\ UNCHANGED <<f_open, pc, caught, exc, origin,
                                     exit_code>>
    /\ UNCHANGED <<argc, config>>
    /\ UNCHANGED <<file_exists, file_len, resource_name, file_size, start_time,
                   upload_info, client_token, upload_id, total_parts, result,
                   warnings, now, minted>>

\* -------------------------------------------------------- complete_upload
CompleteBody(etag, size) == [success |-> TRUE, etag |-> etag, size |-> size]

CompleteBodies ==
    LET full == {CompleteBody(t, file_len) : t \in Etags}
    IN  {ErrorBody} \cup full \cup {Drop(b, k) : b \in full, k \in {"etag", "size"}}

CompleteOutcomes == RequestExceptions \cup {Response(b) : b \in CompleteBodies}

\* The exception that complete_upload, or the summary that follows it in
\* upload_file (lines 214-223), raise for outcome o and elapsed time
\* elapsed_time; NoExc when there is none.
CompleteUploadError(o, elapsed_time) ==
    IF o.kind # "response" THEN MakeRequestError(o, "complete", 0)
    ELSE IF ~GetSuccess(o.body) THEN UploadError("complete", "rejected", 0)
    ELSE IF ~HasKey(o.body, "etag") THEN Exc("KeyError", "summary", "etag", 0)
    ELSE IF ~HasKey(o.body, "size") THEN Exc("KeyError", "summary", "size", 0)
    ELSE IF elapsed_time = 0 THEN Exc("ZeroDivisionError", "summary", "speed", 0)
    ELSE NoExc

\* f"{self.base_url}/file/{resource_name}"
FileUrl(name) == <<base_url, "/file/", name>>

\* Variant: complete_upload called outside the inner try.
CompleteRaisesOuter(e) == RaiseOuter(e)

\* complete_upload and the summary are inside the inner try.
CompleteRaises(e) == RaiseInner(e)

\* The values time.time() - start_time can take when the clock reads t: the
\* clock counts whole seconds here, the difference of two readings within
\* one second is zero or a fraction of a second (1 stands for any positive
\* value).
ElapsedTimes(t) == IF t = start_time THEN {0, 1} ELSE {1}

CompleteUpload ==
    /\ pc = "complete"
    /\ \E d \in Ticks, o \in CompleteOutcomes :
          LET backend_token == GenerateBackendJwt("complete", now, now + d)
              payload == [Call("complete", backend_token) EXCEPT
                              !.uploadId = upload_id,
                              !.fileId = resource_name,
                              !.parts = parts,
                              !.success = AnsweredSuccess(o)]
          IN  /\ now' = now + d
              /\ minted' = Append(minted, backend_token)
              /\ calls' = Append(calls, payload)
              /\ \E elapsed_time \in ElapsedTimes(now + d) :
                    LET e == CompleteUploadError(o, elapsed_time)
                    IN  IF e # NoExc
                        THEN /\ CompleteRaises(e)
                             /\ UNCHANGED result
                        ELSE /\ result' = FileUrl(resource_name)
                             /\ pc' = "returned"
                             /\ exit_code' = 0
                             /\ UNCHANGED <<caught, exc, origin>>
    /\ UNCHANGED <<argc, config>>
    /\ UNCHANGED <<file_exists, file_len, resource_name, file_size, start_time,
                   upload_info, client_token, upload_id, total_parts,
                   part_number, f_open, f_pos, parts, warnings>>

\* ----------------------------------------------------------- abort_upload
\* abort_upload does not read the body of the answer.
AbortOutcomes == RequestExceptions \cup {Response([success |-> TRUE])}

\* Variant: abort_upload without its try/except, so that the failure of the
\* abort request replaces the exception being handled.
AbortReraisesAbortError(o, e) ==
    IF o.kind = "error" THEN MakeRequestError(o, "abort", 0) ELSE e

\* The exception that leaves the inner handler (lines 229-230) when it
\* caught e and the abort request ended with outcome o: abort_upload
\* swallows its own failure, and raise re-raises e.
AbortReraises(o, e) == e

\* The warnings after abort_upload, for outcome o of its request.
AbortWarnings(o) ==
    IF o.kind = "error"
    THEN Append(warnings, MakeRequestError(o, "abort", 0))
    ELSE warnings

\* The inner handler: abort_upload(upload_id, resource_name), then raise; the
\* outer handlers see what it raises.
AbortUpload ==
    /\ pc = "abort"
    /\ \E d \in Ticks, o \in AbortOutcomes :
          LET backend_token == GenerateBackendJwt("abort", now, now + d)
              request == [Call("abort", backend_token) EXCEPT
                              !.uploadId = upload_id,
                              !.fileId = resource_name]
          IN  /\ now' = now + d
              /\ minted' = Append(minted, backend_token)
              /\ calls' = Append(calls, request)
              /\ warnings' = AbortWarnings(o)
              /\ exc' = OuterExcept(AbortReraises(o, caught))
              /\ exit_code' = ExitCodeOfException(exc')
              /\ pc' = "raised"
    /\ UNCHANGED <<argc, config>>
    /\ UNCHANGED <<file_exists, file_len, resource_name, file_size, start_time,
                   upload_info, client_token, upload_id, total_parts,
                   part_number, f_open, f_pos, parts, caught, result, origin>>

\* ------------------------------------------------------------ upload_file
Next ==
    \/ Main
    \/ GetFileInfo
    \/ CreateUpload
    \/ OpenFile
    \/ PartsLoopEnd
    \/ ReadEmpty
    \/ UploadPart
    \/ CompleteUpload
    \/ AbortUpload

Spec == Init /\ [][Next]_vars

\* ------------------------------------------------------------- properties
Aborts == CallsOf("abort")
PartCalls == CallsOf("part")
Completes == CallsOf("complete")

\* A request that failed at transport or status level, or was answered with
\* success=false.
RequestFailure(e) == e.why \in {"timeout", "status", "rejected"}

\* The abort request carries the uploadId create returned and the caller's
\* resource name.
AbortOfSession(c) ==
    /\ c.uploadId = upload_info["uploadId"]
    /\ c.fileId = resource_name

\* C1: when a part upload fails (transport, status or success=false),
\* abort_upload is invoked exactly once, with the uploadId create returned and
\* the caller's resource name, and upload_file raises the part-upload error
\* itself.
C1_PartFailureAbortsOnce ==
    (origin.phase = "part" /\ RequestFailure(origin)) =>
        /\ Len(Aborts) <= 1
        /\ pc \in {"abort", "raised"}
        /\ pc = "raised" =>
              /\ Len(Aborts) = 1
              /\ AbortOfSession(Aborts[1])
              /\ exc = origin

\* Part 2 was rejected, the abort request failed too, and upload_file raised.
C1_Witness ==
    /\ pc = "raised"
    /\ origin = UploadError("part", "rejected", 2)
    /\ Len(Aborts) = 1
    /\ Len(warnings) = 1

\* C4: when create fails (transport, status or success=false), upload_file
\* ends in failure and create is the only request it has sent.
C4_CreateFailureSendsNothing ==
    (origin.phase = "create" /\ RequestFailure(origin)) =>
        /\ pc = "raised"
        /\ exc = origin
        /\ Len(calls) = 1
        /\ calls[1].op = "create"

\* create was answered with success=false and upload_file raised.
C4_Witness ==
    /\ pc = "raised"
    /\ origin = UploadError("create", "rejected", 0)
    /\ Len(calls) = 1

\* C5: when the complete call fails (transport, status or success=false),
\* abort_upload is invoked exactly once, with the session's uploadId and the
\* resource name, and upload_file raises the completion error.
C5_CompleteFailureAbortsOnce ==
    (origin.phase = "complete" /\ RequestFailure(origin)) =>
        /\ Len(Aborts) <= 1
        /\ pc \in {"abort", "raised"}
        /\ pc = "raised" =>
              /\ Len(Aborts) = 1
              /\ AbortOfSession(Aborts[1])
              /\ calls[Len(calls)].op = "abort"
              /\ exc = origin

\* Both parts of a two-part upload were sent, complete failed, abort was sent.
C5_Witness ==
    /\ pc = "raised"
    /\ origin.phase = "complete"
    /\ origin.why = "status"
    /\ total_parts = 2
    /\ Len(PartCalls) = 2
    /\ Len(Aborts) = 1

\* C6: the abort request is sent once and never again, and whatever its
\* outcome upload_file ends in failure with the error that started the abort
\* path (as the outer handlers deliver it); a failed abort only adds a
\* warning.
C6_AbortOutcomeNeverChangesResult ==
    /\ Len(Aborts) <= 1
    /\ pc = "abort" => (caught = origin /\ Len(Aborts) = 0)
    /\ Len(Aborts) = 1 =>
          /\ pc = "raised"
          /\ result = <<>>
          /\ caught = origin
          /\ exc = OuterExcept(origin)
          /\ exc.cls = "UploadError"
          /\ exc.phase # "abort"
          /\ Len(warnings) <= 1
          /\ \A i \in 1..Len(warnings) : warnings[i].phase = "abort"

\* The complete call was rejected and the abort request then timed out.
C6_Witness ==
    /\ pc = "raised"
    /\ Len(Aborts) = 1
    /\ origin = UploadError("complete", "rejected", 0)
    /\ warnings = <<UploadError("abort", "timeout", 0)>>

\* The requests authorised with a backend token, in order.
BackendCalls == SelectSeq(calls, LAMBDA c : c.op # "part")

\* C10: create, complete and abort are each sent with a backend token
\* generated for that call with action equal to the call, never with the
\* client token; every part request is sent with the clientToken create
\* returned, never with a backend token.
C10_TokenOfOwnPhase ==
    LET backend == BackendCalls
        sent == PartCalls
    IN  /\ Len(backend) = Len(minted)
        /\ \A i \in 1..Len(backend) :
              /\ backend[i].op \in {"create", "complete", "abort"}
              /\ backend[i].token = minted[i]
              /\ backend[i].token.type = "backend"
              /\ backend[i].token.action = backend[i].op
              /\ backend[i].token \notin ClientTokens
        /\ \A i \in 1..Len(sent) :
              /\ sent[i].token = upload_info["clientToken"]
              /\ sent[i].token.type # "backend"

\* A run that sent create, two parts, complete and abort.
C10_Witness ==
    /\ pc = "raised"
    /\ Len(PartCalls) = 2
    /\ Len(Completes) = 1
    /\ Len(Aborts) = 1
    /\ Len(minted) = 3

\* ceil(a / b) for b > 0
CeilDiv(a, b) == (a + b - 1) \div b

RECURSIVE SumLen(_)
SumLen(cs) == IF cs = <<>> THEN 0 ELSE cs[1].len + SumLen(Tail(cs))

\* C2: complete_upload is only called with a parts list that has an entry
\* for every part number 1..totalParts, totalParts as returned by create.
C2_CompleteCoversAllParts ==
    \A i \in 1..Len(Completes) :
        \A n \in 1..upload_info["totalParts"] :
            \E j \in 1..Len(Completes[i].parts) :
                Completes[i].parts[j].partNumber = n

\* C3: the parts list sent by complete_upload is strictly ascending by
\* partNumber and its etags are those of the part answers, in order.
C3_CompleteSendsAscendingParts ==
    \A i \in 1..Len(Completes) :
        LET sent == Completes[i].parts
        IN  /\ \A j \in 1..(Len(sent) - 1) :
                   sent[j].partNumber < sent[j + 1].partNumber
            /\ Len(sent) = Len(PartCalls)
            /\ \A j \in 1..Len(sent) : sent[j].etag = PartCalls[j].respEtag

\* C7: a timeout or a KeyboardInterrupt while a part request is waiting for
\* its answer leads to an abort request before upload_file raises.
C7_InterruptedPartAborts ==
    (pc = "raised" /\ origin.phase = "part"
        /\ origin.why \in {"timeout", "interrupt"}) =>
        Len(Aborts) = 1

\* C8: by the time complete is called the part requests sent carry the
\* numbers 1..totalParts in order, isLast is set on exactly the request
\* whose number is totalParts, and so isLast was sent exactly once.
C8_PartNumbersAndIsLast ==
    Len(Completes) > 0 =>
        /\ Len(PartCalls) = total_parts
        /\ \A j \in 1..Len(PartCalls) :
              /\ PartCalls[j].partNumber = j
              /\ PartCalls[j].isLast <=> (j = total_parts)
        /\ Cardinality({j \in 1..Len(PartCalls) : PartCalls[j].isLast}) = 1

\* C9: by the time complete is called totalParts is ceil(S / C), every chunk
\* sent but the last has C bytes, the last has S mod C bytes (C when that is
\* zero), and the chunk lengths add up to S.
C9_ChunkLengthsCoverFile ==
    Len(Completes) > 0 =>
        /\ total_parts = CeilDiv(file_size, CHUNK_SIZE)
        /\ \A j \in 1..Len(PartCalls) :
              PartCalls[j].len =
                  IF j < Len(PartCalls) \/ file_size % CHUNK_SIZE = 0
                  THEN CHUNK_SIZE
                  ELSE file_size % CHUNK_SIZE
        /\ SumLen(PartCalls) = file_size

\* C11: every token _generate_backend_jwt returned expires exactly
\* TokenLifetime seconds after it was issued.
C11_TokenLifetimeExact ==
    \A i \in 1..Len(minted) : minted[i].exp - minted[i].iat = TokenLifetime

\* C13: parts are sent one at a time in ascending order: the j-th part
\* request carries part number j, every part request but the latest was
\* acknowledged with success=true, and no chunk has been read that was not
\* sent.
C13_PartsOneAtATime ==
    LET sent == PartCalls
    IN  /\ \A j \in 1..Len(sent) : sent[j].partNumber = j
        /\ \A j \in 1..(Len(sent) - 1) :
              /\ sent[j].success
              /\ sent[j].respEtag \in Etags
        /\ f_pos = SumLen(sent)
        /\ pc = "loop" => Len(sent) = part_number - 1

\* Three parts were sent and acknowledged.
C13_Witness ==
    /\ Len(PartCalls) = 3
    /\ \A j \in 1..3 : PartCalls[j].success
    /\ f_pos = 2 * CHUNK_SIZE + 1

\* C14: no part number is requested twice, and once a part upload has
\* failed no further part is sent, the recorded etags are dropped and
\* complete_upload is not called.
C14_NoRetryAfterPartFailure ==
    LET sent == PartCalls
    IN  /\ \A i, j \in 1..Len(sent) :
              i # j => sent[i].partNumber # sent[j].partNumber
        /\ origin.phase = "part" =>
              /\ pc \in {"abort", "raised"}
              /\ Len(sent) = origin.part
              /\ sent[Len(sent)].partNumber = origin.part
              /\ calls[Len(calls)].op \in {"part", "abort"}
              /\ parts = <<>>
              /\ Len(Completes) = 0

\* Part 2 of 3 failed with a non-2xx status after part 1 was recorded.
C14_Witness ==
    /\ pc = "raised"
    /\ origin = UploadError("part", "status", 2)
    /\ total_parts = 3
    /\ PartCalls[1].respEtag \in Etags
    /\ Len(PartCalls) = 2

\* C15: the partNumber recorded for an acknowledged part is the part number
\* of the request it answers.
C15_RecordedPartNumberIsRequested ==
    /\ \A j \in 1..Len(parts) : parts[j].partNumber = PartCalls[j].partNumber
    /\ \A i \in 1..Len(Completes) :
          \A j \in 1..Len(Completes[i].parts) :
              Completes[i].parts[j].partNumber = PartCalls[j].partNumber

\* The loop was left by break: a read returned no data at part part_number,
\* which is at most totalParts, after every earlier part was acknowledged.
ReadCameUpEmpty ==
    /\ pc \in {"complete", "returned", "abort", "raised"}
    /\ part_number >= 1
    /\ part_number <= total_parts
    /\ Len(PartCalls) = part_number - 1

\* C16: when a read returns no data at part k <= totalParts, no request is
\* sent for part k or a later part, no error is raised for it, and
\* complete_upload is called next with the k - 1 parts recorded so far.
C16_EmptyReadCompletesWithRecordedParts ==
    ReadCameUpEmpty =>
        LET sent == PartCalls
            completes == Completes
        IN  /\ origin.phase \in {"none", "complete", "summary"}
            /\ \A j \in 1..Len(sent) : sent[j].partNumber < part_number
            /\ Len(parts) = part_number - 1
            /\ pc = "complete" => (origin = NoExc /\ Len(completes) = 0)
            /\ pc # "complete" =>
                  /\ Len(completes) = 1
                  /\ completes[1].parts = parts
                  /\ Len(completes[1].parts) = part_number - 1

\* The read for part 2 of 3 was empty and upload_file returned the URL after
\* completing with one part.
C16_Witness ==
    /\ pc = "returned"
    /\ total_parts = 3
    /\ part_number = 2
    /\ Len(Completes) = 1
    /\ Len(Completes[1].parts) = 1

\* C17: once the complete call was answered with success=true, upload_file
\* returns the file URL and abort_upload is not invoked.
C17_CompletedIsTerminal ==
    (Len(Completes) = 1 /\ Completes[1].success) =>
        /\ pc = "returned"
        /\ result = FileUrl(resource_name)
        /\ Len(Aborts) = 0

\* C18: the file is open only while upload_file_parts is in its loop; it is
\* closed when complete_upload or abort_upload is called and when
\* upload_file has returned or raised.
C18_FileClosedOutsideLoop ==
    /\ f_open => pc = "loop"
    /\ pc \in {"complete", "abort", "returned", "raised"} => ~f_open

\* The file was opened, a part failed, abort was sent, upload_file raised,
\* and the file is closed.
C18_Witness ==
    /\ pc = "raised"
    /\ origin.phase = "part"
    /\ f_pos > 0
    /\ Len(Aborts) = 1
    /\ ~f_open

\* C19: when create was answered with success=true, then by the time
\* upload_file has returned or raised either complete has succeeded or
\* abort_upload was invoked exactly once.
C19_NoOrphanedSession ==
    (pc \in {"returned", "raised"} /\ Len(calls) >= 1 /\ calls[1].success) =>
        \/ (Len(Completes) = 1 /\ Completes[1].success)
        \/ Len(Aborts) = 1

Rank(op) ==
    CASE op = "create" -> 1
      [] op = "part" -> 2
      [] op = "complete" -> 3
      [] op = "abort" -> 4

\* C20: the requests of a run are create, then part uploads, then at most
\* one complete, then at most one abort; nothing is sent after a create that
\* did not succeed, and create is sent at most once.
C20_CallOrder ==
    /\ \A i \in 1..(Len(calls) - 1) :
          Rank(calls[i].op) <= Rank(calls[i + 1].op)
    /\ Len(CallsOf("create")) <= 1
    /\ Len(Completes) <= 1
    /\ Len(Aborts) <= 1
    /\ Len(calls) >= 1 => calls[1].op = "create"
    /\ Len(calls) > 1 => (calls[1].success /\ GetSuccess(upload_info))

\* create, three parts, complete and abort were sent in this order.
C20_Witness ==
    /\ Len(calls) = 6
    /\ calls[4].op = "part"
    /\ calls[5].op = "complete"
    /\ calls[6].op = "abort"

\* C12: the process exits with 0 exactly when upload_file returned the URL
\* of a completed upload, and with 1 when upload_file raised (UploadError or
\* KeyboardInterrupt), when the argument count is wrong and when the
\* configuration file is missing or unusable.
C12_ExitCode ==
    /\ exit_code \in {Running, 0, 1}
    /\ exit_code = Running <=> pc \notin {"returned", "raised", "exited"}
    /\ exit_code = 0 <=> pc = "returned"
    /\ exit_code = 0 =>
          /\ result = FileUrl(resource_name)
          /\ Len(Completes) = 1
          /\ Completes[1].success
    /\ (argc # 3 \/ config # "ok") => exit_code \in {Running, 1}
    /\ exc # NoExc => (exit_code = 1 /\ pc = "raised")

\* The user interrupted a part request and the process exited with 1.
C12_Witness ==
    /\ pc = "raised"
    /\ exc.cls = "KeyboardInterrupt"
    /\ exit_code = 1

====
